---- MODULE Spec2Model ----
(***************************************************************************)
(* Task lifecycle of the pushup reminder bot (src/pushup_mvp/app.py):      *)
(* the tasks and events relations, the webhook's callback handlers, the    *)
(* reminder batch and the timeout sweeper.                                 *)
(*                                                                         *)
(* Time is the wall clock in abstract ticks.  A task id is the row's index *)
(* in `tasks` (uuid4 never repeats); 0 stands for a token that is no       *)
(* row's id.  Every `with db_connect() as conn` block that writes is one   *)
(* committed transaction, hence one step; a SELECT that precedes the       *)
(* writes runs outside the transaction (sqlite3 opens it at the first      *)
(* INSERT/UPDATE), so it is a step of its own.  The webhook is an async    *)
(* handler that never awaits after decoding the request, so uvicorn's      *)
(* single event loop runs callbacks one after another; the sweeper and the *)
(* batch run on the scheduler's threads and interleave with it.            *)
(*                                                                         *)
(* A transport failure is send_telegram_message finding a response that is *)
(* not ok and raising; answer_callback ignores its response.  Storage      *)
(* errors (a locked or unwritable database) are not modelled.  The cal     *)
(* callback and the text commands write nothing to the store and are not   *)
(* steps of Spec; the plan and the weekly report they show are functions   *)
(* of the configuration and the stored rows, applied in SpecPlan and       *)
(* SpecReport to inputs drawn in their initial states.                     *)
(***************************************************************************)
EXTENDS Integers, Sequences, FiniteSets, TLC

\* ---- bounds of the model: the last clock reading, the rows the tasks
\* table holds, the callbacks the webhook receives
MaxTime == 1
MaxTasks == 3
MaxCalls == 2
\* for the report: the last day a stored row or a report range lies on, and
\* the rows in the store
MaxDay == 2
MaxRows == 2

\* ---- configuration (config.yaml), in ticks
timeout_minutes == 1
snooze_minutes == 1
DayLen == 2

\* clicked_at of a row that was never acted on (SQL NULL)
None == -1

\* config["telegram"]["users"], in order
Users == <<"u1", "u2">>
\* chat ids a callback can come from
Chats == {"u1", "u2"}
\* ids of SLOT_INDEX
SLOT_INDEX == {"A1"}
\* config["rotation"]: weekday -> time -> slot id ("Z9" is in no catalog)
rotation == [mon |-> (0 :> "A1") @@ (1 :> "Z9")]
\* config["reminders"]["times"]
reminder_times == <<0, 1>>

VARIABLES clock, tasks, events, log, sweep, batch, wh, reply

vars == <<clock, tasks, events, log, sweep, batch, wh, reply>>

\* now.strftime("%Y-%m-%d") and now.strftime("%H:%M") of a clock reading
DateOf(t) == t \div DayLen
TimeOf(t) == t % DayLen

\* d.weekday() through weekday_map; day 0 is a Monday
weekday_map(d) ==
    CASE d % 7 = 0 -> "mon"
      [] d % 7 = 1 -> "tue"
      [] d % 7 = 2 -> "wed"
      [] d % 7 = 3 -> "thu"
      [] d % 7 = 4 -> "fri"
      [] OTHER -> "none"

TaskIds == 1..Len(tasks)

\* rows some in-flight operation is still going to insert
Reserved ==
    (IF wh.pc = "snooze_create" THEN 1 ELSE 0)
    + (IF wh.pc = "set_write" /\ wh.row = 0 THEN 1 ELSE 0)
    + (IF batch.pc = "run" THEN Len(Users) + 1 - batch.i ELSE 0)

CanCreate(n) == Len(tasks) + Reserved + n <= MaxTasks

Idle == [pc |-> "idle"]

\* what the last callback got back: the kind of answer_callback text ("ok"
\* for the texts that report a recorded change, "failed" for the failure
\* text), whether the last send_telegram_message of the handler went out,
\* and whether the handler raised
NoReply == [answer |-> "none", sent |-> FALSE, raised |-> FALSE]

Init ==
    /\ clock = 0
    /\ tasks = <<>>
    /\ events = <<>>
    /\ log = 0
    /\ sweep = Idle
    /\ batch = [pc |-> "idle", fired |-> None, sent |-> FALSE, raised |-> FALSE]
    /\ wh = Idle
    /\ reply = NoReply

\* the wall clock advances
Tick ==
    /\ clock < MaxTime
    /\ clock' = clock + 1
    /\ UNCHANGED <<tasks, events, log, sweep, batch, wh, reply>>

\* log_event: the webhook appends a line to events.log for every callback;
\* the file is kept as its number of lines
log_event ==
    /\ log < MaxCalls
    /\ log' = log + 1

\* the INSERT with the deadline left at the creation time
create_task_no_window(user_id, time_str, slot_id, now) ==
    Append(tasks, [user_id |-> user_id, date |-> DateOf(now), time |-> time_str,
                   slot_id |-> slot_id, status |-> "pending", created_at |-> now,
                   timeout_at |-> now, clicked_at |-> None])

\* create_task: the INSERT of a pending row, returns the table after it
create_task(user_id, time_str, slot_id, now) ==
    Append(tasks, [user_id |-> user_id, date |-> DateOf(now), time |-> time_str,
                   slot_id |-> slot_id, status |-> "pending", created_at |-> now,
                   timeout_at |-> now + timeout_minutes, clicked_at |-> None])

\* the UPDATE made conditional on the row still being pending
update_task_status_if_pending(task_id, status, now) ==
    [i \in TaskIds |->
        IF i = task_id /\ tasks[i].status = "pending"
        THEN [tasks[i] EXCEPT !.status = status, !.clicked_at = now]
        ELSE tasks[i]]

\* the UPDATE with a snooze reopening the row instead of closing it
update_task_status_reopen(task_id, status, now) ==
    [i \in TaskIds |->
        IF i = task_id
        THEN [tasks[i] EXCEPT !.status = IF status = "snoozed" THEN "pending" ELSE status,
                              !.clicked_at = now]
        ELSE tasks[i]]

\* update_task_status: the UPDATE (no row matches an unknown id)
update_task_status(task_id, status, now) ==
    [i \in TaskIds |->
        IF i = task_id
        THEN [tasks[i] EXCEPT !.status = status, !.clicked_at = now]
        ELSE tasks[i]]

\* the INSERT skipped when the task already has an event of that type
status_event_once(task_id, status, now) ==
    IF \E k \in 1..Len(events) :
          events[k].task_id = task_id /\ events[k].event_type = status
    THEN events
    ELSE Append(events, [task_id |-> task_id, user_id |-> "None",
                         event_type |-> status, created_at |-> now])

\* the latest event rewritten in place of an INSERT
status_event_rewrite(task_id, status, now) ==
    LET row == [task_id |-> task_id, user_id |-> "None",
                event_type |-> status, created_at |-> now]
    IN  IF events = <<>> THEN <<row>>
        ELSE [events EXCEPT ![Len(events)] = row]

\* update_task_status: the INSERT INTO events, whatever the UPDATE matched
status_event(task_id, status, now) ==
    Append(events, [task_id |-> task_id, user_id |-> "None",
                    event_type |-> status, created_at |-> now])

\* the send with a response that is not ok swallowed instead of raised
send_telegram_message_swallowed(resp_ok) == FALSE

\* send_telegram_message: raises HTTPException (TRUE) when the response of the
\* Bot API is not ok
send_telegram_message(resp_ok) == ~resp_ok

\* webhook, action done or skip: update_task_status, answer_callback, then
\* send_telegram_message, which raises when the send fails
ActDoneSkip(chat_id, task_id, action) ==
    /\ wh.pc = "idle"
    /\ log_event
    /\ tasks' = update_task_status(task_id, action, clock)
    /\ events' = status_event(task_id, action, clock)
    /\ \E ok \in BOOLEAN :
          reply' = [answer |-> "ok", sent |-> ok,
                    raised |-> send_telegram_message(ok)]
    /\ UNCHANGED <<clock, sweep, batch, wh>>

\* the SELECT with the boundary left out (timeout_at < ?)
list_pending_expired_strict(now) ==
    {i \in TaskIds : tasks[i].status = "pending" /\ tasks[i].timeout_at < now}

\* timeout_scan: the SELECT of the pending rows whose deadline has passed
list_pending_expired(now) ==
    {i \in TaskIds : tasks[i].status = "pending" /\ tasks[i].timeout_at <= now}

SweepRead ==
    /\ sweep.pc = "idle"
    /\ sweep' = [pc |-> "write", now |-> clock, rows |-> list_pending_expired(clock)]
    /\ UNCHANGED <<clock, tasks, events, log, batch, wh, reply>>

\* the UPDATEs never committed
timeout_rows_uncommitted(rows, now) == tasks

\* the UPDATE with clicked_at left as it was
timeout_rows_no_stamp(rows, now) ==
    [i \in TaskIds |->
        IF i \in rows THEN [tasks[i] EXCEPT !.status = "timeout"] ELSE tasks[i]]

\* timeout_scan: the UPDATE of each row read, committed together on leaving
\* the with block (nothing to commit when no row was read)
timeout_rows(rows, now) ==
    [i \in TaskIds |->
        IF i \in rows
        THEN [tasks[i] EXCEPT !.status = "timeout", !.clicked_at = now]
        ELSE tasks[i]]

SweepWrite ==
    /\ sweep.pc = "write"
    /\ tasks' = timeout_rows(sweep.rows, sweep.now)
    /\ sweep' = Idle
    /\ UNCHANGED <<clock, events, log, batch, wh, reply>>

\* webhook, action snooze10, up to the confirmation: update_task_status,
\* answer_callback, send_telegram_message.  A failed send raises and ends the
\* handler.  Only a configured user whose chat sent the callback gets a new
\* reminder; an id that is no row's never will be one (the SELECT of slot_id
\* finds nothing), so the handler ends here for it too.
ActSnooze(chat_id, task_id) ==
    /\ wh.pc = "idle"
    /\ CanCreate(1)
    /\ log_event
    /\ tasks' = update_task_status(task_id, "snoozed", clock)
    /\ events' = status_event(task_id, "snoozed", clock)
    /\ \E ok \in BOOLEAN :
          LET more == ok /\ (\E u \in 1..Len(Users) : Users[u] = chat_id)
                         /\ task_id \in TaskIds
          IN  /\ wh' = IF more
                       THEN [pc |-> "snooze_create", chat_id |-> chat_id,
                             task_id |-> task_id, acted_at |-> clock]
                       ELSE Idle
              /\ reply' = [answer |-> "ok", sent |-> ok,
                            raised |-> send_telegram_message(ok)]
    /\ UNCHANGED <<clock, sweep, batch>>

\* send_reminder_for_user after create_task: SLOT_INDEX[slot_id] raises
\* KeyError for an unknown slot, send_telegram_message raises when it fails
ReminderOutcomes(slot_id) ==
    IF slot_id \in SLOT_INDEX THEN {"sent", "send_failed"} ELSE {"key_error"}

\* whether send_reminder_for_user raises on an outcome
reminder_raises(out) ==
    IF out = "key_error" THEN TRUE ELSE send_telegram_message(out = "sent")

\* webhook, action snooze10, after the confirmation: the SELECT of the row's
\* slot_id and send_reminder_for_user for the sender
SnoozeCreate ==
    /\ wh.pc = "snooze_create"
    /\ LET slot_id == tasks[wh.task_id].slot_id
           time_str == TimeOf(clock + snooze_minutes)
       IN  /\ tasks' = create_task(wh.chat_id, time_str, slot_id, clock)
           /\ \E out \in ReminderOutcomes(slot_id) :
                 reply' = [answer |-> "ok", sent |-> (out = "sent"),
                           raised |-> reminder_raises(out)]
    /\ wh' = Idle
    /\ UNCHANGED <<clock, events, log, sweep, batch>>

\* today_plan_buttons: the (date, time, slot) of the set-buttons shown on day d
PlanButtons(d) ==
    LET wk == weekday_map(d)
    IN  IF wk \in DOMAIN rotation
        THEN {<<d, t, rotation[wk][t]>> : t \in DOMAIN rotation[wk]}
        ELSE {}

\* the '|'-separated fields of a set callback: a button of today or of an
\* earlier day with its status, with the status dropped, or with a fifth field
Descriptors ==
    LET keys == UNION {PlanButtons(d) : d \in 0..DateOf(clock)}
    IN  keys
        \cup {k \o <<st>> : k \in keys, st \in {"done", "skip", "pending"}}
        \cup {k \o <<"done", "x">> : k \in keys}

\* task_id.split("|", 3): at most four parts, the last one keeps the rest
RECURSIVE JoinBar(_)
JoinBar(fs) ==
    IF Len(fs) = 1 THEN fs[1] ELSE fs[1] \o "|" \o JoinBar(Tail(fs))

split3(fields) ==
    IF Len(fields) <= 4 THEN fields
    ELSE SubSeq(fields, 1, 3) \o <<JoinBar(SubSeq(fields, 4, Len(fields)))>>

\* webhook, action set: unpacking anything but four parts raises ValueError,
\* which the handler answers with the failure text
SetMalformed(chat_id, fields) ==
    /\ wh.pc = "idle"
    /\ Len(split3(fields)) # 4
    /\ log_event
    /\ reply' = [answer |-> "failed", sent |-> FALSE, raised |-> FALSE]
    /\ UNCHANGED <<clock, tasks, events, sweep, batch, wh>>

\* the SELECT with its parameters bound in the wrong order (slot_id = user_id)
natural_key_rows_misbound(user_id, date_str, time_str, slot_id) ==
    {i \in TaskIds : /\ tasks[i].slot_id = user_id
                     /\ tasks[i].date = date_str
                     /\ tasks[i].time = time_str
                     /\ tasks[i].user_id = slot_id}

\* upsert_task: the SELECT by natural key
natural_key_rows(user_id, date_str, time_str, slot_id) ==
    {i \in TaskIds : /\ tasks[i].user_id = user_id
                     /\ tasks[i].date = date_str
                     /\ tasks[i].time = time_str
                     /\ tasks[i].slot_id = slot_id}

\* webhook, action set, up to upsert_task's SELECT (fetchone: 0 for no row)
SetLookup(chat_id, fields) ==
    /\ wh.pc = "idle"
    /\ Len(split3(fields)) = 4
    /\ log_event
    /\ LET p == split3(fields)
           found == natural_key_rows(chat_id, p[1], p[2], p[3])
       IN  /\ found # {} \/ CanCreate(1)
           /\ \E row \in (IF found = {} THEN {0} ELSE found) :
                 wh' = [pc |-> "set_write", chat_id |-> chat_id, date |-> p[1],
                        time |-> p[2], slot_id |-> p[3], status |-> p[4],
                        now |-> clock, row |-> row, nfields |-> Len(fields)]
    /\ UNCHANGED <<clock, tasks, events, sweep, batch, reply>>

\* the row found replaced by a fresh one (INSERT OR REPLACE) instead of updated
upsert_write_replace(w, now2) ==
    LET fresh == [user_id |-> w.chat_id, date |-> w.date, time |-> w.time,
                  slot_id |-> w.slot_id, status |-> w.status,
                  created_at |-> w.now, timeout_at |-> now2 + timeout_minutes,
                  clicked_at |-> w.now]
    IN  IF w.row # 0
        THEN [i \in TaskIds |-> IF i = w.row THEN fresh ELSE tasks[i]]
        ELSE Append(tasks, fresh)

\* upsert_task: the UPDATE of the row found, or the INSERT of a new one
\* (created_at and clicked_at are the clock read before the SELECT, timeout_at
\* is computed from a second reading)
upsert_write(w, now2) ==
    IF w.row # 0
    THEN [i \in TaskIds |->
             IF i = w.row
             THEN [tasks[i] EXCEPT !.status = w.status, !.clicked_at = w.now]
             ELSE tasks[i]]
    ELSE Append(tasks, [user_id |-> w.chat_id, date |-> w.date, time |-> w.time,
                        slot_id |-> w.slot_id, status |-> w.status,
                        created_at |-> w.now, timeout_at |-> now2 + timeout_minutes,
                        clicked_at |-> w.now])

SetWrite ==
    /\ wh.pc = "set_write"
    /\ tasks' = upsert_write(wh, clock)
    /\ reply' = [answer |-> "ok", sent |-> FALSE, raised |-> FALSE]
    /\ wh' = Idle
    /\ UNCHANGED <<clock, events, log, sweep, batch>>

\* schedule_daily_reminders: the cron occurrences due at this clock reading
DueNow ==
    LET wk == weekday_map(DateOf(clock))
    IN  IF wk \in DOMAIN rotation
        THEN {<<t, rotation[wk][t]>> : t \in DOMAIN rotation[wk] \cap {TimeOf(clock)}}
        ELSE {}

\* send_reminders_batch: one turn of the loop, send_reminder_for_user for the
\* i-th user; an exception ends the batch and reaches the scheduler.  The idle
\* batch keeps how its last run ended: whether its last send went out and
\* whether it raised.
BatchUser(i, time_str, slot_id, fired) ==
    /\ tasks' = create_task(Users[i], time_str, slot_id, clock)
    /\ \E out \in ReminderOutcomes(slot_id) :
          /\ batch' = IF ~reminder_raises(out) /\ i < Len(Users)
                      THEN [pc |-> "run", i |-> i + 1, time_str |-> time_str,
                            slot_id |-> slot_id, fired |-> fired]
                      ELSE [pc |-> "idle", fired |-> fired, sent |-> (out = "sent"),
                            raised |-> reminder_raises(out)]
    /\ UNCHANGED <<clock, events, log, sweep, wh, reply>>

\* the cron trigger fires send_reminders_batch once per occurrence
BatchStart ==
    /\ batch.pc = "idle"
    /\ batch.fired # clock
    /\ CanCreate(Len(Users))
    /\ \E due \in DueNow : BatchUser(1, due[1], due[2], clock)

BatchNext ==
    /\ batch.pc = "run"
    /\ BatchUser(batch.i, batch.time_str, batch.slot_id, batch.fired)

Next ==
    \/ Tick
    \/ \E c \in Chats, id \in 0..Len(tasks), a \in {"done", "skip"} : ActDoneSkip(c, id, a)
    \/ \E c \in Chats, id \in 0..Len(tasks) : ActSnooze(c, id)
    \/ SnoozeCreate
    \/ \E c \in Chats, f \in Descriptors : SetMalformed(c, f)
    \/ \E c \in Chats, f \in Descriptors : SetLookup(c, f)
    \/ SetWrite
    \/ BatchStart
    \/ BatchNext
    \/ SweepRead
    \/ SweepWrite

Spec == Init /\ [][Next]_vars

\* the bot when no set callback arrives
NextLifecycle ==
    \/ Tick
    \/ \E c \in Chats, id \in 0..Len(tasks), a \in {"done", "skip"} : ActDoneSkip(c, id, a)
    \/ \E c \in Chats, id \in 0..Len(tasks) : ActSnooze(c, id)
    \/ SnoozeCreate
    \/ BatchStart
    \/ BatchNext
    \/ SweepRead
    \/ SweepWrite

SpecLifecycle == Init /\ [][NextLifecycle]_vars

\* the bot when rows come from set callbacks alone (no rotation entry falls
\* due, no reminder button is pressed)
NextUpsert ==
    \/ Tick
    \/ \E c \in Chats, f \in Descriptors : SetMalformed(c, f)
    \/ \E c \in Chats, f \in Descriptors : SetLookup(c, f)
    \/ SetWrite
    \/ SweepRead
    \/ SweepWrite

SpecUpsert == Init /\ [][NextUpsert]_vars

\* the bot with its interval job: the scheduler starts timeout_scan every
\* minute for ever, and a scan that has started runs to its end
SpecSweepFair == Init /\ [][Next]_vars /\ WF_vars(SweepRead) /\ WF_vars(SweepWrite)

\* ---- the plan and the weekly report (weekly_report_json), as functions of
\* the configuration (rotation, config["reminders"]["times"]), the rows of
\* the tasks table and the request (user, first and last day)

\* the inner loop with every slot id of the entry kept, empty or not
RECURSIVE plan_day_keep_empty(_, _, _, _)
plan_day_keep_empty(entry, times, d, k) ==
    IF k > Len(times) THEN <<>>
    ELSE (IF times[k] \in DOMAIN entry
          THEN << <<d, times[k], entry[times[k]]>> >>
          ELSE <<>>)
         \o plan_day_keep_empty(entry, times, d, k + 1)

\* the inner loop over times from position k on: rotation[wk].get(t), kept
\* when it is truthy
RECURSIVE plan_day(_, _, _, _)
plan_day(entry, times, d, k) ==
    IF k > Len(times) THEN <<>>
    ELSE (IF times[k] \in DOMAIN entry /\ entry[times[k]] # ""
          THEN << <<d, times[k], entry[times[k]]>> >>
          ELSE <<>>)
         \o plan_day(entry, times, d, k + 1)

\* the loop over the days start_date..end_date: (date, time, slot_id) of every
\* planned slot
RECURSIVE plan(_, _, _, _)
plan(rot, times, start_date, end_date) ==
    IF start_date > end_date THEN <<>>
    ELSE (IF weekday_map(start_date) \in DOMAIN rot
          THEN plan_day(rot[weekday_map(start_date)], times, start_date, 1)
          ELSE <<>>)
         \o plan(rot, times, start_date + 1, end_date)

\* the SELECT of the user's rows with date BETWEEN start_date AND end_date
report_rows(rows, user_id, start_date, end_date) ==
    {i \in 1..Len(rows) : /\ rows[i].user_id = user_id
                          /\ start_date <= rows[i].date
                          /\ rows[i].date <= end_date}

\* the lookup made among the rows of every user
status_map_any_user(rows, sel, key) ==
    LET hits == {i \in 1..Len(rows) :
                    <<rows[i].date, rows[i].time, rows[i].slot_id>> = key}
    IN  IF hits = {} THEN "pending"
        ELSE rows[CHOOSE i \in hits : \A j \in hits : j <= i].status

\* the lookup keyed on date and slot id, the time left out
status_map_by_slot(rows, sel, key) ==
    LET hits == {i \in sel : rows[i].date = key[1] /\ rows[i].slot_id = key[3]}
    IN  IF hits = {} THEN "pending"
        ELSE rows[CHOOSE i \in hits : \A j \in hits : j <= i].status

\* status_map.get(key, "pending"): the dict comprehension keeps, for a key,
\* the status of the last row read (rows come in insertion order)
status_map(rows, sel, key) ==
    LET hits == {i \in sel : <<rows[i].date, rows[i].time, rows[i].slot_id>> = key}
    IN  IF hits = {} THEN "pending"
        ELSE rows[CHOOSE i \in hits : \A j \in hits : j <= i].status

\* counts[status]: the planned slots with that effective status
counts(pl, rows, sel, status) ==
    Cardinality({k \in 1..Len(pl) : status_map(rows, sel, pl[k]) = status})

\* by_day[d]["done"] (0 for a day with no planned slot)
by_day_done(pl, rows, sel, d) ==
    Cardinality({k \in 1..Len(pl) : pl[k][1] = d /\ status_map(rows, sel, pl[k]) = "done"})

\* the quotient cut to two decimals instead of rounded
done_rate_truncated(done, total) ==
    IF total = 0 THEN 0 ELSE (100 * done) \div total

\* round(done / total, 2) in hundredths, 0 for an empty plan.  A tie is
\* rounded to even, which is what round does when the quotient is exact in
\* binary; a tie needs a total that is a multiple of 8.
done_rate(done, total) ==
    IF total = 0 THEN 0
    ELSE LET q == (100 * done) \div total
             r == (100 * done) % total
         IN  IF 2 * r > total \/ (2 * r = total /\ q % 2 = 1) THEN q + 1 ELSE q

\* the days of start_date..d with a done slot, consecutive or not
streak_done_days(pl, rows, sel, start_date, d) ==
    Cardinality({x \in start_date..d : by_day_done(pl, rows, sel, x) > 0})

\* the streak loop: from day d backwards while d >= start_date and the day
\* has a done slot
RECURSIVE streak(_, _, _, _, _)
streak(pl, rows, sel, start_date, d) ==
    IF d >= start_date /\ by_day_done(pl, rows, sel, d) > 0
    THEN 1 + streak(pl, rows, sel, start_date, d - 1)
    ELSE 0

\* weekly_report_json: report["summary"], with the two counts it leaves out
weekly_report_json(rot, times, rows, user_id, start_date, end_date) ==
    LET pl == plan(rot, times, start_date, end_date)
        sel == report_rows(rows, user_id, start_date, end_date)
        done == counts(pl, rows, sel, "done")
    IN  [total_tasks |-> Len(pl),
         done |-> done,
         skipped |-> counts(pl, rows, sel, "skip"),
         timeout |-> counts(pl, rows, sel, "timeout"),
         snoozed |-> counts(pl, rows, sel, "snoozed"),
         pending |-> counts(pl, rows, sel, "pending"),
         done_rate |-> done_rate(done, Len(pl)),
         streak_days |-> streak(pl, rows, sel, start_date, end_date)]

\* ---- the report asked of a store that holds any rows

\* configurations: the rotation with the times list (times are distinct)
ReportConfigs ==
    {[rotation |-> [mon |-> (0 :> "A1")], times |-> <<0>>],
     [rotation |-> [mon |-> (0 :> "A1" @@ 1 :> "A1"), tue |-> (0 :> "A1"),
                    wed |-> (0 :> "A1"), thu |-> (1 :> "A1")],
      times |-> <<0, 1>>],
     [rotation |-> [mon |-> (1 :> "A1"), tue |-> (0 :> "A1" @@ 1 :> "A1")],
      times |-> <<1, 0>>]}

\* a row of the tasks table for slot A1, created at its scheduled time
ReportRow(user_id, d, t, status) ==
    [user_id |-> user_id, date |-> d, time |-> t, slot_id |-> "A1",
     status |-> status, created_at |-> d * DayLen + t,
     timeout_at |-> d * DayLen + t + timeout_minutes,
     clicked_at |-> IF status = "pending" THEN None ELSE d * DayLen + t]

ReportRowSeqs ==
    LET rowset == {ReportRow("u1", d, t, st) :
                      d \in 0..MaxDay, t \in 0..DayLen - 1,
                      st \in {"pending", "done", "skip"}}
                  \cup {ReportRow("u2", 0, 0, "done")}
    IN  UNION {[1..n -> rowset] : n \in 0..MaxRows}

\* a call of weekly_report_json for u1 is about to run, on a day after the
\* days of the rows, for a range of days or an empty range
InitReport ==
    /\ clock = (MaxDay + 1) * DayLen
    /\ events = <<>>
    /\ log = 0
    /\ sweep = Idle
    /\ batch = [pc |-> "idle", fired |-> None, sent |-> FALSE, raised |-> FALSE]
    /\ reply = NoReply
    /\ tasks \in ReportRowSeqs
    /\ \E cfg \in ReportConfigs, s \in 0..MaxDay, e \in 0..MaxDay :
          /\ s <= e + 1
          /\ wh = [pc |-> "report", rotation |-> cfg.rotation, times |-> cfg.times,
                   user_id |-> "u1", start_date |-> s, end_date |-> e]

\* weekly_report_json runs; the caller gets the summary
WeeklyReportJson ==
    /\ wh.pc = "report"
    /\ reply' = [answer |-> "report",
                 summary |-> weekly_report_json(wh.rotation, wh.times, tasks,
                                                wh.user_id, wh.start_date,
                                                wh.end_date)]
    /\ wh' = [wh EXCEPT !.pc = "reported"]
    /\ UNCHANGED <<clock, tasks, events, log, sweep, batch>>

NextReport == WeeklyReportJson

SpecReport == InitReport /\ [][NextReport]_vars

\* ---- the plan asked for a range of days

\* configurations for the plan: also a weekday with no entry between two
\* that have one, an entry for a weekend key, an empty slot id, a time of
\* the list that no entry has
PlanConfigs ==
    ReportConfigs
    \cup {[rotation |-> [mon |-> (0 :> "A1" @@ 1 :> ""), wed |-> (1 :> "Z9"),
                         sat |-> (0 :> "A1")],
           times |-> <<1, 0, 2>>]}

\* a call of format_range_plan is about to run
InitPlan ==
    /\ clock = 0
    /\ tasks = <<>>
    /\ events = <<>>
    /\ log = 0
    /\ sweep = Idle
    /\ batch = [pc |-> "idle", fired |-> None, sent |-> FALSE, raised |-> FALSE]
    /\ reply = NoReply
    /\ \E cfg \in PlanConfigs, s \in 0..MaxDay + 5, e \in 0..MaxDay + 5 :
          wh = [pc |-> "plan", rotation |-> cfg.rotation, times |-> cfg.times,
                user_id |-> "u1", start_date |-> s, end_date |-> e, calls |-> 0]

\* format_range_plan builds its plan (the same loop as weekly_report_json's);
\* the request may be repeated
FormatRangePlan ==
    /\ wh.pc = "plan"
    /\ wh.calls < 2
    /\ reply' = [answer |-> "plan",
                 plan |-> plan(wh.rotation, wh.times, wh.start_date, wh.end_date)]
    /\ wh' = [wh EXCEPT !.calls = @ + 1]
    /\ UNCHANGED <<clock, tasks, events, log, sweep, batch>>

NextPlan == FormatRangePlan

SpecPlan == InitPlan /\ [][NextPlan]_vars

Terminal == {"done", "skip", "timeout", "snoozed"}

\* ---- C1
\* C1: a task that has reached done, skip or snoozed is never changed to
\* timeout, whatever the interleaving of a sweep with the callbacks.
C1_TerminalNeverTimedOut ==
    [][\A i \in TaskIds :
          tasks[i].status \in {"done", "skip", "snoozed"}
             => tasks'[i].status # "timeout"]_vars

\* ---- C2
\* the rows a sweep at time X is to time out
DueAt(X) ==
    {i \in TaskIds : tasks[i].status = "pending" /\ tasks[i].timeout_at <= X}

\* C2: a sweep at time X that runs with nothing in between reads exactly the
\* pending rows with deadline <= X (boundary included) and sets exactly those
\* to timeout; every other row keeps its status and action timestamp.
C2_SweepExact ==
    [][/\ SweepRead => sweep'.rows = DueAt(clock) /\ sweep'.now = clock
       /\ (SweepWrite /\ sweep.rows = DueAt(sweep.now)) =>
             /\ Len(tasks') = Len(tasks)
             /\ \A i \in TaskIds :
                   tasks'[i] = IF i \in DueAt(sweep.now)
                               THEN [tasks[i] EXCEPT !.status = "timeout",
                                                     !.clicked_at = sweep.now]
                               ELSE tasks[i]]_vars

\* a sweep has timed out a row exactly at its deadline while a pending row
\* with a later deadline and a done row were left as they were
C2_Witness ==
    \E i, j, k \in TaskIds :
        /\ tasks[i].status = "timeout" /\ tasks[i].clicked_at = tasks[i].timeout_at
        /\ tasks[j].status = "pending" /\ tasks[j].timeout_at > tasks[i].clicked_at
        /\ tasks[j].created_at <= tasks[i].clicked_at
        /\ tasks[k].status = "done" /\ tasks[k].clicked_at < tasks[i].clicked_at
        /\ sweep.pc = "idle"

\* ---- C3
\* C3: once a task's status is done, skip, timeout or snoozed it is never
\* pending again.
C3_NeverPendingAgain ==
    [][\A i \in TaskIds :
          tasks[i].status \in Terminal => tasks'[i].status # "pending"]_vars

\* C3 (amended): a task whose status is done, skip, timeout or snoozed
\* becomes pending again only by the write of a set callback whose target
\* status is pending and whose natural key is that task's; no done, skip or
\* snooze10 callback, sweep or creation does it.
C3_PendingAgainOnlyBySet ==
    [][\A i \in TaskIds :
          (tasks[i].status \in Terminal /\ tasks'[i].status = "pending")
             => /\ wh.pc = "set_write" /\ wh.status = "pending" /\ wh.row = i
                /\ SetWrite]_vars

\* a task a callback had closed is pending again
C3_Witness ==
    \E i \in TaskIds, k \in 1..Len(events) :
        /\ events[k].task_id = i
        /\ events[k].event_type \in {"done", "skip", "snoozed"}
        /\ tasks[i].status = "pending"
        /\ wh.pc = "idle"

\* ---- C4
\* C4: every step of the creation path (a turn of the reminder batch, the
\* follow-up of a snooze) adds exactly one row, pending, with no action
\* timestamp and deadline = created_at + timeout_minutes, hence after
\* created_at for a positive timeout_minutes, and touches no other row.
C4_CreateYieldsPending ==
    [][(BatchStart \/ BatchNext \/ SnoozeCreate) =>
          /\ Len(tasks') = Len(tasks) + 1
          /\ \A i \in TaskIds : tasks'[i] = tasks[i]
          /\ LET r == tasks'[Len(tasks')]
             IN  /\ r.status = "pending"
                 /\ r.clicked_at = None
                 /\ r.created_at = clock
                 /\ r.timeout_at = r.created_at + timeout_minutes
                 /\ timeout_minutes > 0 => r.timeout_at > r.created_at]_vars

\* the batch has created a reminder and a snooze has created its follow-up
C4_Witness ==
    \E i, j \in TaskIds :
        /\ i < j
        /\ tasks[i].status = "snoozed"
        /\ tasks[j].status = "pending" /\ tasks[j].clicked_at = None
        /\ tasks[j].created_at >= tasks[i].clicked_at
        /\ tasks[j].time = TimeOf(tasks[j].created_at + snooze_minutes)
        /\ tasks[j].timeout_at = tasks[j].created_at + timeout_minutes
        /\ wh.pc = "idle" /\ reply.sent

\* ---- C5
\* C5: a done or skip callback on an existing task id leaves that task with
\* the status done or skip respectively, so out of pending, and with an action
\* timestamp >= its creation timestamp, whatever its status was before.
C5_ActMovesOutOfPending ==
    [][\A c \in Chats, id \in TaskIds, a \in {"done", "skip"} :
          ActDoneSkip(c, id, a) =>
             /\ tasks'[id].status = a
             /\ tasks'[id].status # "pending"
             /\ tasks'[id].clicked_at >= tasks'[id].created_at
             /\ tasks'[id].created_at = tasks[id].created_at]_vars

\* a task that was already skipped has been acted done
C5_Witness ==
    /\ Len(events) = 2
    /\ events[1].task_id = events[2].task_id
    /\ events[1].task_id \in TaskIds
    /\ events[1].event_type = "skip"
    /\ events[2].event_type = "done"
    /\ tasks[events[2].task_id].status = "done"
    /\ tasks[events[2].task_id].clicked_at >= tasks[events[2].task_id].created_at

\* ---- C6
\* C6: a snooze10 callback on an existing task T leaves T snoozed and goes on
\* to create exactly one new pending task with T's recipient and slot id and
\* deadline = snooze action time + timeout window, for every sender and every
\* outcome of the confirmation message.
C6_SnoozeCreatesFollowUp ==
    [][/\ \A c \in Chats, id \in TaskIds :
             ActSnooze(c, id) =>
                tasks'[id].status = "snoozed" /\ wh'.pc = "snooze_create"
       /\ SnoozeCreate =>
             /\ Len(tasks') = Len(tasks) + 1
             /\ tasks'[wh.task_id].status = "snoozed"
             /\ LET r == tasks'[Len(tasks')]
                IN  /\ r.status = "pending"
                    /\ r.user_id = tasks[wh.task_id].user_id
                    /\ r.slot_id = tasks[wh.task_id].slot_id
                    /\ r.timeout_at = wh.acted_at + timeout_minutes]_vars

\* ---- C7
\* the snoozed events recorded for a task id
SnoozesOf(id) ==
    {k \in 1..Len(events) :
        events[k].task_id = id /\ events[k].event_type = "snoozed"}

\* C7: only the first snooze10 callback on a task id creates a follow-up
\* task; a task already snoozed is not snoozed again from its own id.
C7_NoSecondSnooze ==
    [][SnoozeCreate => Cardinality(SnoozesOf(wh.task_id)) <= 1]_vars

\* ---- C8
\* C8: a done, skip or snooze10 callback on a task id that is no row's
\* changes neither the tasks nor the events relation, is answered as a
\* failure, and sends no confirmation.
C8_MissingIdIsNoOp ==
    [][\A c \in Chats :
          (ActDoneSkip(c, 0, "done") \/ ActDoneSkip(c, 0, "skip") \/ ActSnooze(c, 0)) =>
             /\ tasks' = tasks
             /\ events' = events
             /\ reply'.answer = "failed"
             /\ ~reply'.sent]_vars

\* ---- C9
\* C9: a set callback whose descriptor has fewer or more than four fields is
\* answered as a failure and no task row is inserted or updated.
C9_MalformedSetRejected ==
    [][/\ \A c \in Chats, f \in Descriptors :
             (Len(f) # 4 /\ SetMalformed(c, f)) =>
                tasks' = tasks /\ reply'.answer = "failed"
       /\ (SetWrite /\ wh.nfields # 4) =>
             tasks' = tasks /\ reply'.answer = "failed"]_vars

\* ---- C10
NaturalKey(i) == <<tasks[i].user_id, tasks[i].date, tasks[i].time, tasks[i].slot_id>>

\* C10: with rows coming from set callbacks alone, from an empty store, no
\* two task rows share a natural key (recipient, date, time, slot id).
C10_OneRowPerNaturalKey ==
    \A i, j \in TaskIds : i # j => NaturalKey(i) # NaturalKey(j)

\* a second set callback for a natural key has found the row the first one
\* inserted and updated it: still one row
C10_Witness ==
    /\ wh.pc = "idle"
    /\ log = 2
    /\ Len(tasks) = 1
    /\ tasks[1].status = "done"
    /\ tasks[1].clicked_at > tasks[1].created_at

\* ---- C11
\* C11: when the notification fails in a done, skip or snooze10 callback, the
\* handler raises, and the task keeps its new status and the event stays
\* appended; when it fails in the creation of a reminder (the follow-up of a
\* snooze, a turn of the batch), send_reminder_for_user raises and the new
\* pending row stays in the table.
C11_FailedSendKeepsWrite ==
    [][/\ \A c \in Chats, id \in TaskIds, a \in {"done", "skip"} :
             (ActDoneSkip(c, id, a) /\ ~reply'.sent) =>
                /\ reply'.raised
                /\ tasks'[id].status = a
                /\ events' = Append(events, events'[Len(events')])
                /\ events'[Len(events')].task_id = id
                /\ events'[Len(events')].event_type = a
       /\ \A c \in Chats, id \in TaskIds :
             (ActSnooze(c, id) /\ ~reply'.sent) =>
                /\ reply'.raised
                /\ wh'.pc = "idle"
                /\ tasks'[id].status = "snoozed"
                /\ events' = Append(events, events'[Len(events')])
                /\ events'[Len(events')].task_id = id
                /\ events'[Len(events')].event_type = "snoozed"
       /\ (SnoozeCreate /\ ~reply'.sent) =>
             /\ reply'.raised
             /\ tasks' = Append(tasks, tasks'[Len(tasks')])
             /\ tasks'[Len(tasks')].status = "pending"
       /\ ((BatchStart \/ BatchNext) /\ batch'.pc = "idle" /\ ~batch'.sent) =>
             /\ batch'.raised
             /\ tasks' = Append(tasks, tasks'[Len(tasks')])
             /\ tasks'[Len(tasks')].status = "pending"]_vars

\* the batch raised on a failed send with the reminder's row in the table,
\* and a done callback on that row raised on its failed confirmation with the
\* status and the event recorded
C11_Witness ==
    /\ batch.pc = "idle" /\ batch.raised /\ ~batch.sent
    /\ Len(tasks) = 1 /\ tasks[1].slot_id \in SLOT_INDEX
    /\ reply.raised /\ ~reply.sent
    /\ tasks[1].status = "done"
    /\ Len(events) = 1 /\ events[1].task_id = 1 /\ events[1].event_type = "done"

\* ---- C12
\* C12: a run of send_reminders_batch for a slot of the catalog ends only
\* after the turn of the last configured user, so that with one row per turn
\* it has created one pending task for every user, whatever became of the
\* sends to the others.
C12_OneTaskPerRecipient ==
    [][((BatchStart \/ BatchNext) /\ batch'.pc = "idle"
          /\ tasks'[Len(tasks')].slot_id \in SLOT_INDEX) =>
          (IF batch.pc = "run" THEN batch.i ELSE 1) = Len(Users)]_vars

\* ---- C13
\* the events of one type recorded for a task id in an events relation
EventsFor(ev, id, type) ==
    {k \in 1..Len(ev) : ev[k].task_id = id /\ ev[k].event_type = type}

\* C13: applying update_task_status with the status an existing task already
\* has leaves the task's status as it was and appends one more event row of
\* that type for the task (two after the second application) and nothing
\* else to the events.
C13_SameStatusTwice ==
    [][/\ \A c \in Chats, id \in TaskIds, a \in {"done", "skip"} :
             (ActDoneSkip(c, id, a) /\ tasks[id].status = a) =>
                /\ tasks'[id].status = tasks[id].status
                /\ Len(events') = Len(events) + 1
                /\ Cardinality(EventsFor(events', id, a))
                      = Cardinality(EventsFor(events, id, a)) + 1
       /\ \A c \in Chats, id \in TaskIds :
             (ActSnooze(c, id) /\ tasks[id].status = "snoozed") =>
                /\ tasks'[id].status = tasks[id].status
                /\ Len(events') = Len(events) + 1
                /\ Cardinality(EventsFor(events', id, "snoozed"))
                      = Cardinality(EventsFor(events, id, "snoozed")) + 1]_vars

\* done has been applied twice to one task: two event rows, status done
C13_Witness ==
    \E id \in TaskIds :
        /\ EventsFor(events, id, "done") = {1, 2}
        /\ Len(events) = 2
        /\ tasks[id].status = "done"

\* ---- C14
\* C14: no step removes a task row, and no step changes an existing row's
\* id (its place in the table), user_id, date, time, slot_id, created_at or
\* timeout_at: only status and clicked_at of an existing row change.
C14_IdentityImmutable ==
    [][/\ Len(tasks') >= Len(tasks)
       /\ \A i \in TaskIds :
             tasks'[i] = [tasks[i] EXCEPT !.status = tasks'[i].status,
                                          !.clicked_at = tasks'[i].clicked_at]]_vars

\* of two rows the batch created, the sweep has timed out one and a set
\* callback on a later tick has set the other to done
C14_Witness ==
    \E i, j \in TaskIds :
        /\ tasks[i].status = "done" /\ tasks[i].clicked_at > tasks[i].created_at
        /\ tasks[j].status = "timeout" /\ tasks[j].clicked_at = tasks[j].timeout_at
        /\ tasks[i].created_at = tasks[j].created_at
        /\ events = <<>>
        /\ wh.pc = "idle" /\ reply.answer = "ok"

\* ---- C15
\* C15: in every reachable state a task has an action timestamp if and only
\* if its status is not pending.
C15_StampIffNotPending ==
    \A i \in TaskIds : (tasks[i].clicked_at # None) <=> (tasks[i].status # "pending")

\* C15 (amended): every row written with a status other than pending has an
\* action timestamp, and a row is written pending with an action timestamp
\* only by the write of a set callback whose target status is pending (the
\* row it updates or inserts); a row created by the batch or by a snooze is
\* pending without one.
C15_StampUnlessSetPending ==
    [][\A i \in 1..Len(tasks') :
          /\ tasks'[i].status # "pending" => tasks'[i].clicked_at # None
          /\ (tasks'[i].status = "pending" /\ tasks'[i].clicked_at # None) =>
                \/ i \in TaskIds /\ tasks[i] = tasks'[i]
                \/ /\ SetWrite
                   /\ wh.status = "pending"
                   /\ wh.row = i \/ (wh.row = 0 /\ i = Len(tasks'))]_vars

\* a row timed out by the sweep carries its action timestamp, and a row a set
\* callback put back to pending carries the time of that callback
C15_Witness ==
    \E i, j \in TaskIds :
        /\ tasks[i].status = "pending" /\ tasks[i].clicked_at > tasks[i].created_at
        /\ tasks[j].status = "timeout" /\ tasks[j].clicked_at = tasks[j].timeout_at
        /\ wh.pc = "idle"

\* ---- C16
\* C16: with timeout_scan started again and again and run to its end, a task
\* that is pending with its deadline passed is eventually not pending; and
\* while no callback is writing to it, the step that takes such a task out of
\* pending is the sweep's and makes it timeout.
C16_ExpiredLeavesPending ==
    /\ \A i \in 1..MaxTasks :
          (i \in TaskIds /\ tasks[i].status = "pending" /\ tasks[i].timeout_at <= clock)
             ~> (i \in TaskIds /\ tasks[i].status # "pending")
    /\ [][\A i \in TaskIds :
             (/\ tasks[i].status = "pending" /\ tasks[i].timeout_at <= clock
              /\ tasks'[i].status # "pending"
              /\ wh.pc = "idle" /\ log' = log) =>
                SweepWrite /\ tasks'[i].status = "timeout"]_vars

\* a reminder nobody answered has been timed out at its deadline
C16_Witness ==
    \E i \in TaskIds :
        /\ tasks[i].status = "timeout"
        /\ tasks[i].clicked_at = tasks[i].timeout_at
        /\ events = <<>> /\ log = 0
        /\ clock = tasks[i].timeout_at

\* ---- C17
\* C17: u1's one task is the reminder of Monday's first slot (A1), created
\* by the batch, acted done and recorded by one event; a sweep that started
\* at or after its deadline, after the done, then writes.  The task has
\* deadline = creation + timeout and the sweep leaves it done, and the report
\* of u1 for that week (Monday to Sunday), with the rotation Monday -> {first
\* slot: A1}, shows total 1, done 1, rate 1.0 and streak 1.
C17_EndToEnd ==
    [][\A i \in TaskIds :
          (/\ SweepWrite
           /\ sweep.now >= tasks[i].timeout_at /\ i \notin sweep.rows
           /\ \A j \in TaskIds : tasks[j].user_id = "u1" => j = i
           /\ tasks[i].user_id = "u1" /\ tasks[i].date = 0
           /\ tasks[i].time = 0 /\ tasks[i].slot_id = "A1"
           /\ tasks[i].status = "done"
           /\ EventsFor(events, i, "done") = {1} /\ Len(events) = 1) =>
             /\ tasks[i].timeout_at = tasks[i].created_at + timeout_minutes
             /\ tasks'[i] = tasks[i]
             /\ LET r == weekly_report_json([mon |-> (0 :> "A1")], <<0>>,
                                            tasks', "u1", 0, 6)
                IN  /\ r.total_tasks = 1
                    /\ r.done = 1
                    /\ r.done_rate = 100
                    /\ r.streak_days = 1]_vars

\* ---- C18
\* the planned slots of a range, as (day, position in times)
Planned(rot, times, s, e) ==
    {p \in (s..e) \X (1..Len(times)) :
        /\ weekday_map(p[1]) \in DOMAIN rot
        /\ times[p[2]] \in DOMAIN rot[weekday_map(p[1])]
        /\ rot[weekday_map(p[1])][times[p[2]]] # ""}

\* the natural key (without the user) of a planned slot
SlotKey(rot, times, p) ==
    <<p[1], times[p[2]], rot[weekday_map(p[1])][times[p[2]]]>>

\* the status of the user's task with a planned slot's key (the latest row,
\* should several rows have the key), pending when the user has none
Resolved(rows, user_id, s, e, key) ==
    LET mine == {i \in 1..Len(rows) :
                    /\ rows[i].user_id = user_id
                    /\ rows[i].date \in s..e
                    /\ <<rows[i].date, rows[i].time, rows[i].slot_id>> = key}
    IN  IF mine = {} THEN "pending"
        ELSE rows[CHOOSE i \in mine : \A j \in mine : j <= i].status

\* the planned slots of the request that resolve to a status
ResolvedTo(status) ==
    {p \in Planned(wh.rotation, wh.times, wh.start_date, wh.end_date) :
        Resolved(tasks, wh.user_id, wh.start_date, wh.end_date,
                 SlotKey(wh.rotation, wh.times, p)) = status}

\* the rows of the store whose key is a planned slot's
PlannedRows ==
    SelectSeq(tasks, LAMBDA r :
        \E p \in Planned(wh.rotation, wh.times, wh.start_date, wh.end_date) :
            <<r.date, r.time, r.slot_id>> = SlotKey(wh.rotation, wh.times, p))

\* C18: in a report, total_tasks is the number of planned slots of the range
\* whatever rows exist, each count is the number of planned slots whose
\* status is that of the user's task with the slot's natural key, pending
\* for a slot with no task, and the rows whose key is no planned slot's
\* change nothing in the summary.
C18_ReportResolvesPlan ==
    wh.pc = "reported" =>
       LET sm == reply.summary
           n == Cardinality(Planned(wh.rotation, wh.times, wh.start_date, wh.end_date))
       IN  /\ sm.total_tasks = n
           /\ weekly_report_json(wh.rotation, wh.times, <<>>, wh.user_id,
                                 wh.start_date, wh.end_date).total_tasks = n
           /\ sm.done = Cardinality(ResolvedTo("done"))
           /\ sm.skipped = Cardinality(ResolvedTo("skip"))
           /\ sm.timeout = Cardinality(ResolvedTo("timeout"))
           /\ sm.snoozed = Cardinality(ResolvedTo("snoozed"))
           /\ sm.pending = Cardinality(ResolvedTo("pending"))
           /\ sm = weekly_report_json(wh.rotation, wh.times, PlannedRows,
                                      wh.user_id, wh.start_date, wh.end_date)

\* a report of two planned slots: one done by the user's task, one counted
\* pending for want of a task, with a row in the store whose key is no
\* planned slot of the range
C18_Witness ==
    /\ wh.pc = "reported"
    /\ reply.summary.total_tasks = 2
    /\ reply.summary.done = 1 /\ reply.summary.pending = 1
    /\ Len(tasks) = 2 /\ Len(PlannedRows) = 1
    /\ \E i \in TaskIds : tasks[i].user_id = "u1" /\ tasks[i].status = "done"

\* ---- C19
\* a day of the request has a planned slot that resolves to done
DoneDay(d) ==
    \E p \in ResolvedTo("done") : p[1] = d

\* a day of the request has a done task of the user's
DoneTaskDay(d) ==
    \E i \in TaskIds :
        tasks[i].user_id = wh.user_id /\ tasks[i].date = d /\ tasks[i].status = "done"

\* C19: the streak of a report is the number of days of the range when every
\* day of it has a done task of the user's, and 0 when the last day has none.
C19_StreakOverDoneTasks ==
    wh.pc = "reported" =>
       /\ (\A d \in wh.start_date..wh.end_date : DoneTaskDay(d)) =>
             reply.summary.streak_days = Cardinality(wh.start_date..wh.end_date)
       /\ ~DoneTaskDay(wh.end_date) => reply.summary.streak_days = 0

\* C19 (amended): with a day's done-count the number of its planned slots
\* that resolve to done, the streak is the number of consecutive days with
\* done-count > 0 counted back from end_date and not past start_date: the
\* number of days of the range when every day has one, 0 when the last day
\* has none.  A done task whose key is no planned slot's does not count.
C19_StreakOverDoneSlots ==
    wh.pc = "reported" =>
       LET n == reply.summary.streak_days
           days == wh.start_date..wh.end_date
       IN  /\ n \in 0..Cardinality(days)
           /\ \A d \in days : d > wh.end_date - n => DoneDay(d)
           /\ n < Cardinality(days) => ~DoneDay(wh.end_date - n)
           /\ (\A d \in days : DoneDay(d)) => n = Cardinality(days)
           /\ ~DoneDay(wh.end_date) => n = 0

\* a report whose streak is the two last days of a three-day range, the
\* first day having no done slot
C19_Witness ==
    /\ wh.pc = "reported"
    /\ wh.start_date = 0 /\ wh.end_date = 2
    /\ reply.summary.streak_days = 2
    /\ ~DoneDay(0)

\* ---- C20
\* the position of a time in a list of distinct times
PosIn(times, t) == CHOOSE k \in 1..Len(times) : times[k] = t

\* C20: the plan of a rotation, a list of distinct times and a range of days
\* holds exactly the planned slots: for each day of the range whose weekday
\* is Monday to Friday and has a rotation entry, one item for every time of
\* the list the entry has a slot for, and nothing for any other day; the
\* items come by day, then in the order of the times list; and a second
\* call with the same inputs yields the same sequence.
C20_PlanDeterministic ==
    /\ [](wh.pc = "plan" /\ wh.calls >= 1 =>
            LET pl == reply.plan
                P == Planned(wh.rotation, wh.times, wh.start_date, wh.end_date)
            IN  /\ Len(pl) = Cardinality(P)
                /\ {pl[k] : k \in 1..Len(pl)}
                      = {SlotKey(wh.rotation, wh.times, p) : p \in P}
                /\ \A d \in wh.start_date..wh.end_date :
                      Cardinality({k \in 1..Len(pl) : pl[k][1] = d})
                        = IF weekday_map(d) \in DOMAIN wh.rotation
                          THEN Cardinality({k \in 1..Len(wh.times) :
                                  /\ wh.times[k] \in DOMAIN wh.rotation[weekday_map(d)]
                                  /\ wh.rotation[weekday_map(d)][wh.times[k]] # ""})
                          ELSE 0
                /\ \A a, b \in 1..Len(pl) :
                      a < b =>
                         \/ pl[a][1] < pl[b][1]
                         \/ /\ pl[a][1] = pl[b][1]
                            /\ PosIn(wh.times, pl[a][2]) < PosIn(wh.times, pl[b][2]))
    /\ [][(FormatRangePlan /\ wh.calls >= 1) => reply'.plan = reply.plan]_vars

\* the plan of eight days from a Monday was built twice: one slot on each
\* Monday and one on the Wednesday, none for the empty slot id, the time no
\* entry has, the Saturday entry or the weekdays without an entry
C20_Witness ==
    /\ wh.pc = "plan" /\ wh.calls = 2
    /\ wh.start_date = 0 /\ wh.end_date = 7
    /\ reply.plan = << <<0, 0, "A1">>, <<2, 1, "Z9">>, <<7, 0, "A1">> >>

\* ---- C21
\* C21: the done_rate of a report is 0 for an empty plan and otherwise the
\* two-decimal number nearest to done / total_tasks, where done is the
\* number of planned slots that resolve to done; it lies between 0 and 1
\* (rates are in hundredths).
C21_RateRounded ==
    wh.pc = "reported" =>
       LET sm == reply.summary
           dist == sm.done_rate * sm.total_tasks - 100 * sm.done
       IN  /\ sm.done = Cardinality(ResolvedTo("done"))
           /\ sm.done <= sm.total_tasks
           /\ sm.total_tasks = 0 => sm.done_rate = 0
           /\ sm.total_tasks > 0 =>
                 /\ 2 * dist <= sm.total_tasks
                 /\ 2 * dist >= 0 - sm.total_tasks
           /\ sm.done_rate \in 0..100

\* a report with two of three planned slots done: 0.67
C21_Witness ==
    /\ wh.pc = "reported"
    /\ reply.summary.total_tasks = 3
    /\ reply.summary.done = 2
    /\ reply.summary.done_rate = 67

\* ---- C22
\* C22: a run of send_reminders_batch for a rotation entry whose slot id is
\* not in the catalog ends without raising and leaves no task row for that
\* slot.
C22_UnknownSlotOmitted ==
    [][((BatchStart \/ BatchNext) /\ \A due \in DueNow : due[2] \notin SLOT_INDEX) =>
          /\ ~batch'.raised
          /\ tasks' = tasks]_vars

\* ---- C23
\* C23: every step that changes the status of a stored task, by a callback
\* on its id, by a set callback or by the sweep, appends in that step one
\* event for that task whose type is the status entered.
C23_EveryChangeHasEvent ==
    [][\A i \in TaskIds :
          tasks'[i].status # tasks[i].status =>
             /\ Len(events') = Len(events) + 1
             /\ events'[Len(events')].task_id = i
             /\ events'[Len(events')].event_type = tasks'[i].status]_vars

\* C23 (amended): a done, skip or snooze10 callback appends, in the step that
\* writes the status, one event with the task id of the callback and the
\* status entered as its type; the write of a set callback and the sweep
\* change statuses without any event; and every step leaves the events
\* already recorded as they are, in their order.
C23_EventsOnlyForActs ==
    [][/\ \A c \in Chats, id \in 0..Len(tasks), a \in {"done", "skip"} :
             ActDoneSkip(c, id, a) =>
                /\ Len(events') = Len(events) + 1
                /\ events'[Len(events')].task_id = id
                /\ events'[Len(events')].event_type = a
                /\ id \in TaskIds => tasks'[id].status = a
       /\ \A c \in Chats, id \in 0..Len(tasks) :
             ActSnooze(c, id) =>
                /\ Len(events') = Len(events) + 1
                /\ events'[Len(events')].task_id = id
                /\ events'[Len(events')].event_type = "snoozed"
                /\ id \in TaskIds => tasks'[id].status = "snoozed"
       /\ (SetWrite \/ SweepWrite) => events' = events
       /\ Len(events') >= Len(events)
       /\ \A k \in 1..Len(events) : events'[k] = events[k]]_vars

\* after a done callback recorded by its event, the sweep has timed out
\* another task and a set callback has skipped a third, with no event for
\* either
C23_Witness ==
    \E i, j, k \in TaskIds :
        /\ tasks[i].status = "done" /\ EventsFor(events, i, "done") = {1}
        /\ tasks[j].status = "timeout"
        /\ tasks[k].status = "skip"
        /\ Len(events) = 1
        /\ wh.pc = "idle" /\ sweep.pc = "idle"

\* ---- C24
\* C24: a done, skip or snooze10 callback from a chat changes no task of
\* another user, whatever task id it carries, and the follow-up of a snooze
\* is created for the user the snoozed task belongs to.
C24_RecipientIsolation ==
    [][/\ \A c \in Chats, id \in TaskIds :
             (/\ tasks[id].user_id # c
              /\ \/ ActDoneSkip(c, id, "done")
                 \/ ActDoneSkip(c, id, "skip")
                 \/ ActSnooze(c, id)) =>
                tasks'[id] = tasks[id]
       /\ SnoozeCreate =>
             tasks'[Len(tasks')].user_id = tasks[wh.task_id].user_id]_vars

\* ---- C25
\* the Monday of the week of a day
WeekStart(d) == d - (d % 7)

\* the report's status for the slot of row T, for T's user and T's week,
\* over a tasks table
SlotStatus(rows, T) ==
    status_map(rows,
               report_rows(rows, rows[T].user_id, WeekStart(rows[T].date),
                           WeekStart(rows[T].date) + 6),
               <<rows[T].date, rows[T].time, rows[T].slot_id>>)

\* the done count of the report for T's user and T's week, over a tasks table
WeekDone(rows, T) ==
    weekly_report_json(rotation, reminder_times, rows, rows[T].user_id,
                       WeekStart(rows[T].date), WeekStart(rows[T].date) + 6).done

\* row F can be the follow-up of the snoozed row T: created at or after the
\* snooze, for T's slot, at the time of day snooze_minutes later
FollowUp(T, F) ==
    /\ F # T
    /\ tasks[T].status = "snoozed"
    /\ tasks[F].created_at >= tasks[T].clicked_at
    /\ tasks[F].slot_id = tasks[T].slot_id
    /\ tasks[F].time = TimeOf(tasks[F].created_at + snooze_minutes)

\* row T is the task of a planned slot and the only row with its key
OnlyRowOfPlannedSlot(T) ==
    /\ <<tasks[T].date, tasks[T].time, tasks[T].slot_id>> \in PlanButtons(tasks[T].date)
    /\ tasks[T].time \in {reminder_times[k] : k \in 1..Len(reminder_times)}
    /\ \A j \in TaskIds : j # T => NaturalKey(j) # NaturalKey(T)

\* C25: when T is the snoozed task of a planned slot and the only row with
\* its natural key, a done callback on its follow-up leaves the report's
\* status for T's slot snoozed and the report's done count as it was.
C25_FollowUpDoneKeepsSnoozed ==
    [][\A c \in Chats, T \in TaskIds, F \in TaskIds :
          (/\ FollowUp(T, F)
           /\ OnlyRowOfPlannedSlot(T)
           /\ ActDoneSkip(c, F, "done")) =>
             /\ SlotStatus(tasks', T) = "snoozed"
             /\ WeekDone(tasks', T) = WeekDone(tasks, T)]_vars

\* the follow-up of a snoozed reminder is done; the report counts the
\* reminder's planned slot as snoozed and no slot as done
C25_Witness ==
    \E T, F \in TaskIds :
        /\ FollowUp(T, F)
        /\ OnlyRowOfPlannedSlot(T)
        /\ tasks[T].slot_id \in SLOT_INDEX
        /\ tasks[F].status = "done"
        /\ EventsFor(events, T, "snoozed") = {1} /\ EventsFor(events, F, "done") = {2}
        /\ SlotStatus(tasks, T) = "snoozed"
        /\ WeekDone(tasks, T) = 0
====
